---- MODULE Spec2Model ----
(***************************************************************************)
(* openllm-prompt-mender: the trainset store (utils/data_utils.py), the    *)
(* start-up of the two applications, the LLM-judge metric and the chainlit *)
(* message handler (apps/search_assistant.py, apps/audio_assistant.py).    *)
(*                                                                         *)
(* Text is a sequence of one-character strings.  A JSON scalar is a record *)
(* [t, s, n, d, b]: t is "str", "int", "float", "bool" or "null"; s the    *)
(* characters of a str; n the value of an int, or the mantissa of a float  *)
(* n / 10^d; b the value of a bool.                                        *)
(***************************************************************************)
EXTENDS Integers, Sequences, FiniteSets, TLC

\* ------------------------------------------------------------ bounds

\* longest string value of a field of a generated example
MaxStrLen == 1
\* most examples in a trainset held in memory
MaxExamples == 2
\* most load_trainset calls recorded in one run
MaxLoads == 2
\* the scores a judge gives are the multiples of 1 / ScoreSteps in [0, 1]
ScoreSteps == 2
\* most chat messages in one run
MaxMessages == 3

\* ------------------------------------------------------------ characters

QUOTE == "\""
BSL == "\\"
NL == "\n"
\* the backspace character, which has no escape in a TLA+ string
BS == "<BS>"
Ws == {" ", "\t", "\n", "\r"}
Digits == <<"0", "1", "2", "3", "4", "5", "6", "7", "8", "9">>
DigitSet == {Digits[i] : i \in 1..10}
DigitVal(c) == (CHOOSE i \in 1..10 : Digits[i] = c) - 1

\* json.decoder.BACKSLASH: the character a \x escape stands for
BACKSLASH == [c \in {QUOTE, BSL, "/", "b", "f", "n", "r", "t"} |->
                CASE c = QUOTE -> QUOTE
                  [] c = BSL -> BSL
                  [] c = "/" -> "/"
                  [] c = "b" -> BS
                  [] c = "f" -> "\f"
                  [] c = "n" -> "\n"
                  [] c = "r" -> "\r"
                  [] c = "t" -> "\t"]

\* characters json.dumps writes as a two-character escape (ESCAPE_DCT)
ESCAPE_DCT == [c \in {QUOTE, BSL, "\n", "\r", "\t", BS, "\f"} |->
                CASE c = QUOTE -> <<BSL, QUOTE>>
                  [] c = BSL -> <<BSL, BSL>>
                  [] c = "\n" -> <<BSL, "n">>
                  [] c = "\r" -> <<BSL, "r">>
                  [] c = "\t" -> <<BSL, "t">>
                  [] c = BS -> <<BSL, "b">>
                  [] c = "\f" -> <<BSL, "f">>]

\* ------------------------------------------------------------ values

StrV(s) == [t |-> "str", s |-> s, n |-> 0, d |-> 0, b |-> FALSE]
IntV(n) == [t |-> "int", s |-> <<>>, n |-> n, d |-> 0, b |-> FALSE]
FloatV(m, d) == [t |-> "float", s |-> <<>>, n |-> m, d |-> d, b |-> FALSE]
BoolV(b) == [t |-> "bool", s |-> <<>>, n |-> 0, d |-> 0, b |-> b]
NullV == [t |-> "null", s |-> <<>>, n |-> 0, d |-> 0, b |-> FALSE]

RECURSIVE Pow10(_)
Pow10(k) == IF k = 0 THEN 1 ELSE 10 * Pow10(k - 1)

Abs(n) == IF n < 0 THEN -n ELSE n

\* float(): the float of mantissa m and d fraction digits, in lowest terms
\* (1.50 is 1.5); a float always keeps one fraction digit (1.0)
RECURSIVE NormFloat(_, _)
NormFloat(m, d) ==
    IF d > 1 /\ m % 10 = 0 THEN NormFloat(m \div 10, d - 1) ELSE FloatV(m, d)

\* ------------------------------------------------------------ json.dumps

RECURSIVE Concat(_)
Concat(ss) == IF ss = <<>> THEN <<>> ELSE Head(ss) \o Concat(Tail(ss))

\* encode_basestring: quotes around the string, its special characters escaped
EscapeChar(c) == IF c \in DOMAIN ESCAPE_DCT THEN ESCAPE_DCT[c] ELSE <<c>>
EncodeStr(s) ==
    <<QUOTE>> \o Concat([i \in 1..Len(s) |-> EscapeChar(s[i])]) \o <<QUOTE>>

\* int.__repr__ of a natural number
RECURSIVE NatDigits(_)
NatDigits(n) ==
    IF n < 10 THEN <<Digits[n + 1]>>
    ELSE NatDigits(n \div 10) \o <<Digits[(n % 10) + 1]>>

EncodeInt(n) == (IF n < 0 THEN <<"-">> ELSE <<>>) \o NatDigits(Abs(n))

\* the d fraction digits of f, zero-padded on the left
RECURSIVE FracDigits(_, _)
FracDigits(f, d) ==
    IF d = 0 THEN <<>>
    ELSE FracDigits(f \div 10, d - 1) \o <<Digits[(f % 10) + 1]>>

\* float.__repr__ of m / 10^d
EncodeFloat(m, d) ==
    (IF m < 0 THEN <<"-">> ELSE <<>>)
      \o NatDigits(Abs(m) \div Pow10(d)) \o <<".">>
      \o FracDigits(Abs(m) % Pow10(d), d)

Lit(str) ==
    CASE str = "true" -> <<"t", "r", "u", "e">>
      [] str = "false" -> <<"f", "a", "l", "s", "e">>
      [] str = "null" -> <<"n", "u", "l", "l">>

EncodeValue(v) ==
    CASE v.t = "str" -> EncodeStr(v.s)
      [] v.t = "int" -> EncodeInt(v.n)
      [] v.t = "float" -> EncodeFloat(v.n, v.d)
      [] v.t = "bool" -> Lit(IF v.b THEN "true" ELSE "false")
      [] v.t = "null" -> Lit("null")

\* json.dumps(dict, ensure_ascii=False): the pairs in the dict's order,
\* ", " between items and ": " between a key and its value
RECURSIVE EncodeItems(_)
EncodeItems(d) ==
    IF d = <<>> THEN <<>>
    ELSE EncodeStr(d[1][1]) \o <<":", " ">> \o EncodeValue(d[1][2])
           \o (IF Len(d) > 1 THEN <<",", " ">> ELSE <<>>)
           \o EncodeItems(Tail(d))

json_dumps(d) == <<"{">> \o EncodeItems(d) \o <<"}">>

\* ------------------------------------------------------------ json.loads
\* Positions in a result are Python's: 0-based, so index i of a sequence is
\* position i - 1.  A failure carries the message and position of the
\* JSONDecodeError; "stop" is the scanner's StopIteration.

Ok(v, end) == [ok |-> TRUE, v |-> v, end |-> end, pos |-> 0, msg |-> ""]
Err(msg, pos) == [ok |-> FALSE, v |-> NullV, end |-> 0, pos |-> pos, msg |-> msg]
OkStr(str, end) == [ok |-> TRUE, s |-> str, end |-> end, pos |-> 0, msg |-> ""]
ErrStr(msg, pos) == [ok |-> FALSE, s |-> <<>>, end |-> 0, pos |-> pos, msg |-> msg]
OkObj(d, end) == [ok |-> TRUE, d |-> d, end |-> end, pos |-> 0, msg |-> ""]
ErrObj(msg, pos) == [ok |-> FALSE, d |-> <<>>, end |-> 0, pos |-> pos, msg |-> msg]

CharAt(s, i) == IF i \in 1..Len(s) THEN s[i] ELSE ""

\* WHITESPACE.match(s, i).end()
RECURSIVE SkipWs(_, _)
SkipWs(s, i) == IF CharAt(s, i) \in Ws THEN SkipWs(s, i + 1) ELSE i

\* characters that end a chunk of a string besides the quote and the
\* backslash: the control characters
ControlChars == {"\n", "\r", "\t", "\f", BS}

\* scanstring(s, end): i is the index after the opening quote.  The position
\* of an invalid escape is that of its backslash (c_scanstring).  A \uXXXX
\* escape is not modelled ("unmodelled").
RECURSIVE ScanChunks(_, _, _, _)
ScanChunks(s, i, begin, acc) ==
    IF i > Len(s) THEN ErrStr("Unterminated string starting at", begin - 1)
    ELSE IF s[i] = QUOTE THEN OkStr(acc, i + 1)
    ELSE IF s[i] \in ControlChars THEN ErrStr("Invalid control character at", i - 1)
    ELSE IF s[i] # BSL THEN ScanChunks(s, i + 1, begin, Append(acc, s[i]))
    ELSE IF i + 1 > Len(s) THEN ErrStr("Unterminated string starting at", begin - 1)
    ELSE IF s[i + 1] = "u" THEN ErrStr("unmodelled", i)
    ELSE IF s[i + 1] \in DOMAIN BACKSLASH
         THEN ScanChunks(s, i + 2, begin, Append(acc, BACKSLASH[s[i + 1]]))
    ELSE ErrStr("Invalid \\escape", i - 1)

scanstring(s, i) == ScanChunks(s, i, i - 1, <<>>)

RECURSIVE SkipDigits(_, _)
SkipDigits(s, i) == IF CharAt(s, i) \in DigitSet THEN SkipDigits(s, i + 1) ELSE i

\* the number the digits s[i..j-1] write
RECURSIVE DigitsValue(_, _, _)
DigitsValue(s, i, j) ==
    IF i >= j THEN 0 ELSE DigitsValue(s, i, j - 1) * 10 + DigitVal(s[j - 1])

\* Bind(x, F) is F(x): it names the value x once, as a local variable does.
Bind(x, F(_)) == F(x)

\* NUMBER_RE.match(s, i): (-?(?:0|[1-9]\d*))(\.\d+)?  The exponent part
\* ([eE][-+]?\d+)? is not modelled: a number followed by an exponent is
\* reported as "unmodelled".  a, b, c are the indices after the sign, the
\* integer part and the fraction.
HasExp(s, c) ==
    /\ CharAt(s, c) \in {"e", "E"}
    /\ \/ CharAt(s, c + 1) \in DigitSet
       \/ /\ CharAt(s, c + 1) \in {"-", "+"}
          /\ CharAt(s, c + 2) \in DigitSet

NumberValue(s, neg, a, b, c) ==
    Bind(DigitsValue(s, a, b), LAMBDA int :
        IF c = b THEN IntV(IF neg THEN -int ELSE int)
        ELSE Bind(int * Pow10(c - b - 1) + DigitsValue(s, b + 1, c), LAMBDA mant :
                 NormFloat(IF neg THEN -mant ELSE mant, c - b - 1)))

match_number(s, i) ==
    Bind(CharAt(s, i) = "-", LAMBDA neg :
    Bind(IF neg THEN i + 1 ELSE i, LAMBDA a :
    Bind(IF CharAt(s, a) = "0" THEN a + 1
         ELSE IF CharAt(s, a) \in DigitSet THEN SkipDigits(s, a)
         ELSE a, LAMBDA b :
    Bind(IF CharAt(s, b) = "." /\ CharAt(s, b + 1) \in DigitSet
         THEN SkipDigits(s, b + 1) ELSE b, LAMBDA c :
        IF b = a THEN Err("stop", i - 1)
        ELSE IF HasExp(s, c) THEN Err("unmodelled", c - 1)
        ELSE Ok(NumberValue(s, neg, a, b, c), c)))))

StartsWith(s, i, w) ==
    /\ i + Len(w) - 1 <= Len(s)
    /\ \A k \in 1..Len(w) : s[i + k - 1] = w[k]

\* scan_once(s, idx) on a scalar.  A container nested in an object is not
\* modelled ("unmodelled"); NaN and the infinities do not occur.
scan_once(s, i) ==
    Bind(CharAt(s, i), LAMBDA c :
        IF c = "" THEN Err("stop", i - 1)
        ELSE IF c = QUOTE
             THEN Bind(scanstring(s, i + 1), LAMBDA r :
                      IF r.ok THEN Ok(StrV(r.s), r.end) ELSE Err(r.msg, r.pos))
        ELSE IF c \in {"{", "["} THEN Err("unmodelled", i - 1)
        ELSE IF c = "n" /\ StartsWith(s, i, Lit("null")) THEN Ok(NullV, i + 4)
        ELSE IF c = "t" /\ StartsWith(s, i, Lit("true")) THEN Ok(BoolV(TRUE), i + 4)
        ELSE IF c = "f" /\ StartsWith(s, i, Lit("false")) THEN Ok(BoolV(FALSE), i + 5)
        ELSE match_number(s, i))

\* dict(pairs): a repeated key keeps its first place and takes its last value
RECURSIVE DictOf(_)
DictOf(pairs) ==
    IF pairs = <<>> THEN <<>>
    ELSE Bind(DictOf(SubSeq(pairs, 1, Len(pairs) - 1)), LAMBDA init :
         Bind(pairs[Len(pairs)], LAMBDA last :
             IF \E k \in 1..Len(init) : init[k][1] = last[1]
             THEN [k \in 1..Len(init) |->
                     IF init[k][1] = last[1] THEN last ELSE init[k]]
             ELSE Append(init, last)))

\* the loop of JSONObject: i is the index after the opening quote of a key;
\* c1 is the index of the colon, n1 that of the comma or closing brace, q
\* that of the next key's opening quote
RECURSIVE ObjectLoop(_, _, _)
ObjectLoop(s, i, pairs) ==
    Bind(scanstring(s, i), LAMBDA key :
    IF ~key.ok THEN ErrObj(key.msg, key.pos)
    ELSE
    Bind(IF CharAt(s, key.end) = ":" THEN key.end ELSE SkipWs(s, key.end), LAMBDA c1 :
    IF CharAt(s, c1) # ":" THEN ErrObj("Expecting ':' delimiter", c1 - 1)
    ELSE
    Bind(scan_once(s, SkipWs(s, c1 + 1)), LAMBDA val :
    IF ~val.ok
    THEN ErrObj(IF val.msg = "stop" THEN "Expecting value" ELSE val.msg, val.pos)
    ELSE
    Bind(SkipWs(s, val.end), LAMBDA n1 :
    IF CharAt(s, n1) = "}"
    THEN OkObj(DictOf(Append(pairs, <<key.s, val.v>>)), n1 + 1)
    ELSE IF CharAt(s, n1) # "," THEN ErrObj("Expecting ',' delimiter", n1 - 1)
    ELSE
    Bind(SkipWs(s, n1 + 1), LAMBDA q :
    IF CharAt(s, q) # QUOTE
    THEN ErrObj("Expecting property name enclosed in double quotes", q - 1)
    ELSE ObjectLoop(s, q + 1, Append(pairs, <<key.s, val.v>>)))))))

\* JSONObject((s, end)): i is the index after the opening brace
JSONObject(s, i) ==
    Bind(IF CharAt(s, i) = QUOTE THEN i ELSE SkipWs(s, i), LAMBDA j :
        IF CharAt(s, j) = "}" THEN OkObj(<<>>, j + 1)
        ELSE IF CharAt(s, j) # QUOTE
             THEN ErrObj("Expecting property name enclosed in double quotes", j - 1)
        ELSE ObjectLoop(s, j + 1, <<>>))

\* A parsed document: kind is "dict" (d the pairs) or "scalar" (v the value).
Doc(kind, d, v) ==
    [ok |-> TRUE, kind |-> kind, d |-> d, v |-> v, pos |-> 0, msg |-> ""]
DocErr(msg, pos) ==
    [ok |-> FALSE, kind |-> "", d |-> <<>>, v |-> NullV, pos |-> pos, msg |-> msg]

\* raw_decode: the value at index i, a dict or a scalar, and the index after it
raw_decode(s, i) ==
    IF CharAt(s, i) = "{"
    THEN Bind(JSONObject(s, i + 1), LAMBDA o :
             IF o.ok THEN [doc |-> Doc("dict", o.d, NullV), end |-> o.end]
             ELSE [doc |-> DocErr(o.msg, o.pos), end |-> 0])
    ELSE Bind(scan_once(s, i), LAMBDA r :
             IF r.ok THEN [doc |-> Doc("scalar", <<>>, r.v), end |-> r.end]
             ELSE [doc |-> DocErr(IF r.msg = "stop" THEN "Expecting value" ELSE r.msg,
                                  r.pos),
                   end |-> 0])

\* JSONDecoder.decode(s): one value between optional whitespace, nothing after
json_loads(s) ==
    Bind(raw_decode(s, SkipWs(s, 1)), LAMBDA r :
        IF ~r.doc.ok THEN r.doc
        ELSE Bind(SkipWs(s, r.end), LAMBDA end :
                 IF end # Len(s) + 1 THEN DocErr("Extra data", end - 1) ELSE r.doc))

\* JSONDecodeError.lineno: doc.count('\n', 0, pos) + 1
ErrLineno(s, pos) == Cardinality({k \in 1..Len(s) : k <= pos /\ s[k] = NL}) + 1
\* JSONDecodeError.colno: pos - doc.rindex('\n', 0, pos), or pos + 1
ErrColno(s, pos) ==
    LET nls == {k \in 1..Len(s) : k <= pos /\ s[k] = NL}
    IN  IF nls = {} THEN pos + 1
        ELSE pos - ((CHOOSE k \in nls : \A m \in nls : m <= k) - 1)

\* ------------------------------------------------------------ dspy.Example
\* An example is [store, input_keys]: store the fields in their order, a
\* sequence of <<name, value>> pairs with distinct names; input_keys is
\* [declared, keys], declared FALSE until with_inputs is called.

Question == <<"q", "u", "e", "s", "t", "i", "o", "n">>
Context == <<"c", "o", "n", "t", "e", "x", "t">>
Requirements == <<"r", "e", "q", "u", "i", "r", "e", "m", "e", "n", "t", "s">>
Answer == <<"a", "n", "s", "w", "e", "r">>
\* the name of the first parameter of dspy.Example(base=None, **kwargs)
Base == <<"b", "a", "s", "e">>

NoInputs == [declared |-> FALSE, keys |-> {}]
Inputs(keys) == [declared |-> TRUE, keys |-> keys]

Keys(d) == {d[i][1] : i \in 1..Len(d)}
KeySet(K) == {K[i] : i \in 1..Len(K)}

\* dspy.Example(**data), data a dict of scalars: the key "base" binds to the
\* constructor's parameter base, which is used only when it is a dict or an
\* Example; every other key is a field.
Example(data) ==
    [store |-> SelectSeq(data, LAMBDA p : p[1] # Base), input_keys |-> NoInputs]

\* the example returned as it is, with_inputs not called
WithInputsNotCalled(ex, K) == ex
\* example.inputs() in place of with_inputs: only the input fields are kept
OnlyInputFields(ex, K) ==
    [store |-> SelectSeq(ex.store, LAMBDA p : p[1] \in KeySet(K)),
     input_keys |-> Inputs(KeySet(K))]
\* example.with_inputs(*keys): a copy whose input keys are set(keys); the keys
\* are not compared with the fields
with_inputs(ex, K) == [ex EXCEPT !.input_keys = Inputs(KeySet(K))]

\* example.toDict(): the fields, scalars as they are
toDict(ex) == ex.store

\* ------------------------------------------------------------ data_utils.py

\* the default of load_trainset's input_keys
DefaultInputKeys == <<Question, Context>>

\* save_trainset: the text written to the file, one record and '\n' per example
RECURSIVE save_trainset(_)
save_trainset(trainset) ==
    IF trainset = <<>> THEN <<>>
    ELSE json_dumps(toDict(Head(trainset))) \o <<NL>> \o save_trainset(Tail(trainset))

\* reading in text mode (newline=None): "\r\n" and "\r" are read as "\n"
UniversalNewlines(text) ==
    LET kept == SelectSeq([i \in 1..Len(text) |-> i],
                          LAMBDA i : ~(text[i] = NL /\ i > 1 /\ text[i - 1] = "\r"))
    IN  [k \in 1..Len(kept) |-> IF text[kept[k]] = "\r" THEN NL ELSE text[kept[k]]]

\* the indices at which a line starts, and the index at which the line that
\* starts at p ends: its '\n', or the end of the text
LineStarts(text) ==
    {p \in 1..Len(text) : p = 1 \/ text[p - 1] = NL}
LineEnd(text, p) ==
    IF \E j \in p..Len(text) : text[j] = NL
    THEN CHOOSE j \in p..Len(text) :
             text[j] = NL /\ \A m \in p..(j - 1) : text[m] # NL
    ELSE Len(text)

\* for line in f: the lines of the text, each with the '\n' that ends it
SplitLines(text) ==
    [k \in 1..Cardinality(LineStarts(text)) |->
        Bind(CHOOSE p \in LineStarts(text) :
                 Cardinality({q \in LineStarts(text) : q < p}) = k - 1,
             LAMBDA p : SubSeq(text, p, LineEnd(text, p)))]

FileLines(text) == SplitLines(UniversalNewlines(text))

\* The outcome of a load_trainset call: status "ok" with the examples
\* returned, or the exception raised (nothing is returned); lineno, colno
\* and msg are those of the JSONDecodeError.
Loaded(examples) ==
    [status |-> "ok", examples |-> examples, msg |-> "", lineno |-> 0, colno |-> 0]
Raised(status, msg, lineno, colno) ==
    [status |-> status, examples |-> <<>>, msg |-> msg,
     lineno |-> lineno, colno |-> colno]

\* the loop of load_trainset over the lines of the file
RECURSIVE LoadLines(_, _, _, _)
LoadLines(lines, i, input_keys, loaded_data) ==
    IF i > Len(lines) THEN Loaded(loaded_data)
    ELSE Bind(json_loads(lines[i]), LAMBDA data :
             IF ~data.ok
             THEN Raised("JSONDecodeError", data.msg,
                         ErrLineno(lines[i], data.pos), ErrColno(lines[i], data.pos))
             ELSE IF data.kind # "dict"
             THEN Raised("TypeError", "argument after ** must be a mapping", 0, 0)
             ELSE LoadLines(lines, i + 1, input_keys,
                      Append(loaded_data, with_inputs(Example(data.d), input_keys))))

\* load_trainset(file_path, input_keys) on a file [exists, text]
load_trainset(f, input_keys) ==
    IF ~f.exists THEN Raised("FileNotFoundError", "", 0, 0)
    ELSE LoadLines(FileLines(f.text), 1, input_keys, <<>>)

\* ------------------------------------------------------------ inputs

\* the characters of generated string values: a letter and the three
\* characters json.dumps must escape
StrAlphabet == {"a", QUOTE, BSL, NL}

RECURSIVE StringsUpTo(_)
StringsUpTo(n) ==
    IF n = 0 THEN {<<>>}
    ELSE LET shorter == StringsUpTo(n - 1)
         IN  shorter \cup {Append(s, c) : s \in shorter, c \in StrAlphabet}

Strings == StringsUpTo(MaxStrLen)

\* numbers and booleans a field may hold: 0, -12, 0.5, -1.0, True, False
Scalars == {IntV(0), IntV(-12), FloatV(5, 1), FloatV(-10, 1),
            BoolV(TRUE), BoolV(FALSE)}

\* what google_client.web_search may return: the snippets of the results
SearchResults == {<<>>, <<<<"a">>, <<QUOTE>>>>}

\* "\n".join(f"{i + 1}. {result.snippet}" for i, result in enumerate(...))
RECURSIVE NumberedSnippets(_, _)
NumberedSnippets(results, i) ==
    IF i > Len(results) THEN <<>>
    ELSE NatDigits(i) \o <<".", " ">> \o results[i]
           \o (IF i < Len(results) THEN <<NL>> ELSE <<>>)
           \o NumberedSnippets(results, i + 1)

\* the example build_trainset appends for one query and its search results
BuiltExample(question, results) ==
    with_inputs(Example(<<<<Question, StrV(question)>>,
                          <<Context, StrV(NumberedSnippets(results, 1))>>>>),
                <<Question, Context>>)

\* build_trainset(queries), results[i] the search results of queries[i]
build_trainset(queries, results) ==
    [i \in 1..Len(queries) |-> BuiltExample(queries[i], results[i])]

\* dspy.Example(base=d): the fields of the dict d
ExampleOfDict(d) == [store |-> d, input_keys |-> NoInputs]

\* The examples a caller may hand to save_trainset: those build_trainset
\* makes, a requirements example of the audio assistant, a question with a
\* numeric or boolean label, an example with a field named "base", and the
\* example with no fields.
ExamplePool ==
    {BuiltExample(q, r) : q \in Strings, r \in SearchResults}
      \cup {with_inputs(ExampleOfDict(<<<<Requirements, StrV(r)>>>>), <<Requirements>>) :
              r \in Strings}
      \cup {with_inputs(ExampleOfDict(<<<<Question, StrV(<<"a">>)>>, <<Answer, v>>>>),
                        <<Question>>) : v \in Scalars}
      \cup {ExampleOfDict(<<<<Base, StrV(<<"a">>)>>>>), ExampleOfDict(<<>>)}

\* the example beside which the others are tried
Filler == BuiltExample(<<"a">>, <<<<"a">>>>)

\* The trainsets handed to save_trainset: up to MaxExamples examples of the
\* pool, at most one of them not the filler (records are written, and lines
\* parsed, one by one).
RECURSIVE TrainsetsOfLen(_)
TrainsetsOfLen(n) ==
    IF n = 0 THEN {<<>>}
    ELSE {[i \in 1..n |-> IF i = k THEN ex ELSE Filler] :
            k \in 1..n, ex \in ExamplePool}

Trainsets == UNION {TrainsetsOfLen(n) : n \in 0..MaxExamples}

\* the input_keys a caller passes: the default (search assistant) and the
\* audio assistant's ('requirements',)
KeyChoices == {DefaultInputKeys, <<Requirements>>}

\* ------------------------------------------------------------ state

VARIABLES
    file,      \* the trainset file: [exists, text]
    saved,     \* the trainset given to the save_trainset call that wrote the file
    written,   \* the file is as save_trainset wrote it
    loads,     \* the load_trainset calls since the file last changed:
               \* [input_keys, before, result], before the file at the call
    boot,      \* a start-up of one application: [app, pc, existed, built,
               \* trainset, error], trainset the variable `trainset`
    metric,    \* a call of llm_judge_metric: [app, pc], and once it is called
               \* [app, pc, judged, result], judged what the judge did
    handlers,  \* the render_ui tasks, one per message: [content, pc, pred, error]
    replies,   \* the messages sent to the chat, in order: [to, content]
    load_count,\* the calls of voice_memo_app.load so far
    history,   \* dspy.clients.base_lm.GLOBAL_HISTORY: the prompts of the calls
    lm         \* the language-model settings of one application: [app, pc,
               \* default, overrides, calls, teaching]; pc is the position
               \* in a call of llm_judge_metric

storeVars == <<file, saved, written, loads>>
bootVars == <<boot>>
metricVars == <<metric, lm>>
chatVars == <<handlers, replies, load_count, history>>
vars == <<file, saved, written, loads, boot, metric, handlers, replies,
          load_count, history, lm>>

NoFile == [exists |-> FALSE, text |-> <<>>]
Unbound == [bound |-> FALSE, examples |-> <<>>]
Bound(examples) == [bound |-> TRUE, examples |-> examples]

NoBoot == [app |-> "none", pc |-> "idle", existed |-> FALSE, built |-> FALSE,
           trainset |-> Unbound, error |-> ""]
NoMetric == [app |-> "none", pc |-> "idle"]
NoLm == [app |-> "none", pc |-> "idle", default |-> "none", overrides |-> <<>>,
         calls |-> {}]

StoreIdle == file = NoFile /\ saved = <<>> /\ written = FALSE /\ loads = <<>>
BootIdle == boot = NoBoot
MetricIdle == metric = NoMetric /\ lm = NoLm
ChatIdle == handlers = <<>> /\ replies = <<>> /\ load_count = 0 /\ history = <<>>

\* ------------------------------------------------------------ the store

Init == StoreIdle /\ BootIdle /\ MetricIdle /\ ChatIdle

\* save_trainset(trainset, file_path): open(file_path, 'w') creates or
\* truncates the file, then one line per example is written.  The file is
\* written before it is loaded.
SaveTrainset(trainset) ==
    /\ loads = <<>> /\ (written \/ ~file.exists)
    /\ file' = [exists |-> TRUE, text |-> save_trainset(trainset)]
    /\ saved' = trainset
    /\ written' = TRUE
    /\ loads' = <<>>
    /\ UNCHANGED <<bootVars, metricVars, chatVars>>

\* load_trainset(file_path, input_keys): the file is opened for reading only
LoadTrainset(input_keys) ==
    /\ Len(loads) < MaxLoads
    /\ loads' = Append(loads, [input_keys |-> input_keys, before |-> file,
                               result |-> load_trainset(file, input_keys)])
    /\ UNCHANGED <<file, saved, written, bootVars, metricVars, chatVars>>

\* a writer of the file stopped early: only the first i characters are there
TruncateFile(i) ==
    /\ file.exists /\ written
    /\ i \in 0..(Len(file.text) - 1)
    /\ file' = [file EXCEPT !.text = SubSeq(file.text, 1, i)]
    /\ saved' = <<>>
    /\ written' = FALSE
    /\ loads' = <<>>
    /\ UNCHANGED <<bootVars, metricVars, chatVars>>

Next ==
    \/ \E trainset \in Trainsets : SaveTrainset(trainset)
    \/ \E input_keys \in KeyChoices : LoadTrainset(input_keys)
    \/ \E i \in 0..(Len(file.text) - 1) : TruncateFile(i)

Spec == Init /\ [][Next]_vars

\* ------------------------------------------------------------ trainset store

OkLoads == {k \in 1..Len(loads) : loads[k].result.status = "ok"}

SameFields(loaded, given) ==
    /\ Len(loaded) = Len(given)
    /\ \A i \in 1..Len(given) : loaded[i].store = given[i].store

\* C1: save_trainset(examples, path) followed by load_trainset(path, input_keys)
\* returns as many records as were saved, the i-th with the field names and
\* values of the i-th saved example, in order, for every input_keys.
RoundTripFields ==
    \A k \in 1..Len(loads) :
        written => /\ loads[k].result.status = "ok"
                   /\ SameFields(loads[k].result.examples, saved)

\* C1, for the trainsets in which no example has a field named "base": the
\* round trip holds.
RoundTripFieldsWithoutBase ==
    \A k \in 1..Len(loads) :
        (written /\ \A i \in 1..Len(saved) : Base \notin Keys(saved[i].store))
            => /\ loads[k].result.status = "ok"
               /\ SameFields(loads[k].result.examples, saved)

\* C2 as stated: an example read back has the declared input-field subset of
\* the example that was saved.
RoundTripInputs ==
    \A k \in OkLoads :
        written =>
            \A i \in 1..Len(saved) :
                i <= Len(loads[k].result.examples)
                    => loads[k].result.examples[i].input_keys = saved[i].input_keys

\* C2 amended: every example read back declares as inputs the input_keys
\* given to load_trainset, whatever the saved example declared; it declares
\* the saved example's subset when the caller passes that subset.
LoadedInputsAreCallers ==
    \A k \in OkLoads :
        LET r == loads[k].result
            given == Inputs(KeySet(loads[k].input_keys))
        IN  /\ \A i \in 1..Len(r.examples) : r.examples[i].input_keys = given
            /\ written =>
                 \A i \in 1..Len(saved) :
                    (i <= Len(r.examples) /\ saved[i].input_keys = given)
                        => r.examples[i].input_keys = saved[i].input_keys

\* a saved example declaring ("question", "context") was read back with
\* ('requirements',)
LoadedInputsWitness ==
    \E k \in OkLoads :
        /\ written /\ saved # <<>>
        /\ Len(loads[k].result.examples) = Len(saved)
        /\ loads[k].input_keys = <<Requirements>>
        /\ saved[1].input_keys = Inputs({Question, Context})
        /\ loads[k].result.examples[1].input_keys = Inputs({Requirements})

\* C3: two loads of one file with different input_keys return records with
\* the same field names and values position by position, marked with the
\* input_keys of each call; the file is as it was before either load.
InputFieldIndependence ==
    /\ \A k \in 1..Len(loads) : loads[k].before = file
    /\ \A j, k \in 1..Len(loads) :
        LET a == loads[j].result
            b == loads[k].result
        IN  /\ a.status = b.status
            /\ Len(a.examples) = Len(b.examples)
            /\ \A i \in 1..Len(a.examples) :
                /\ a.examples[i].store = b.examples[i].store
                /\ a.examples[i].input_keys = Inputs(KeySet(loads[j].input_keys))
                /\ b.examples[i].input_keys = Inputs(KeySet(loads[k].input_keys))

\* a file of two records was loaded with the default keys and with
\* ('requirements',)
InputFieldIndependenceWitness ==
    \E j, k \in OkLoads :
        /\ loads[j].input_keys # loads[k].input_keys
        /\ Len(loads[j].result.examples) = 2
        /\ loads[j].result.examples[1].store # <<>>
        /\ loads[j].result.examples[1].input_keys
             # loads[k].result.examples[1].input_keys

\* C4, for load_trainset: the declared inputs of every example returned are
\* among its field names.
LoadedInputsAreFields ==
    \A k \in OkLoads :
        \A i \in 1..Len(loads[k].result.examples) :
            LET ex == loads[k].result.examples[i]
            IN  ex.input_keys.keys \subseteq Keys(ex.store)

\* the lines of a file that are not a well-formed record
BadLines(text) ==
    LET lines == FileLines(text)
    IN  {i \in 1..Len(lines) :
           LET data == json_loads(lines[i]) IN ~data.ok \/ data.kind # "dict"}

Min(S) == CHOOSE x \in S : \A y \in S : x <= y

\* C6: a load of a file with a malformed line fails with a parse error that
\* gives the position of the offending line in the file, and returns no
\* records.
MalformedLineIdentified ==
    \A k \in 1..Len(loads) :
        LET bad == BadLines(loads[k].before.text)
            r == loads[k].result
        IN  (loads[k].before.exists /\ bad # {})
                => /\ r.status = "JSONDecodeError"
                   /\ r.examples = <<>>
                   /\ r.lineno = Min(bad)

\* C6 without the position: the load fails with a parse error and returns no
\* records, wherever the malformed line is.
MalformedLineAborts ==
    \A k \in 1..Len(loads) :
        LET bad == BadLines(loads[k].before.text)
            r == loads[k].result
        IN  (loads[k].before.exists /\ bad # {})
                => r.status = "JSONDecodeError" /\ r.examples = <<>>

\* ------------------------------------------------------------ start-up
\* search_assistant.py runs lines 169-179 when it is imported;
\* audio_assistant.py runs main().  The environment holds the API keys.

\* the query lists of data/queries.jsonl, and the search results of each query
RECURSIVE QueryListsUpTo(_)
QueryListsUpTo(n) ==
    IF n = 0 THEN {<<>>}
    ELSE LET shorter == QueryListsUpTo(n - 1)
         IN  shorter \cup {Append(qs, q) : qs \in shorter, q \in Strings}

QueryLists == QueryListsUpTo(MaxExamples)
ResultsFor(queries) == [1..Len(queries) -> SearchResults]

\* the process starts with the trainset file absent, or as an earlier
\* save_trainset left it
InitBoot ==
    /\ \/ StoreIdle
       \/ \E trainset \in Trainsets :
            /\ file = [exists |-> TRUE, text |-> save_trainset(trainset)]
            /\ saved = trainset
            /\ written = TRUE
            /\ loads = <<>>
    /\ \E app \in {"search", "audio"} :
         boot = [NoBoot EXCEPT !.app = app, !.pc = "exists", !.existed = file.exists]
    /\ MetricIdle /\ ChatIdle

BootStep(pc) == [boot EXCEPT !.pc = pc]
BootRaise(error) == [boot EXCEPT !.pc = "failed", !.error = error]

\* the outcome of `trainset = load_trainset(...)`
BootLoaded(result) ==
    IF result.status = "ok"
    THEN [boot EXCEPT !.pc = IF boot.app = "audio" THEN "compile" ELSE "done",
                      !.trainset = Bound(result.examples)]
    ELSE BootRaise(result.status)

\* search_assistant.py:175 if os.path.exists("data/trainset.jsonl")
SearchExists ==
    /\ boot.app = "search" /\ boot.pc = "exists"
    /\ boot' = BootStep(IF file.exists THEN "load" ELSE "build")
    /\ UNCHANGED <<storeVars, metricVars, chatVars>>

\* search_assistant.py:176 trainset = load_trainset("data/trainset.jsonl")
SearchLoad ==
    /\ boot.app = "search" /\ boot.pc = "load"
    /\ boot' = BootLoaded(load_trainset(file, DefaultInputKeys))
    /\ UNCHANGED <<storeVars, metricVars, chatVars>>

\* search_assistant.py:178 trainset = build_trainset(list(dataset["query"]))
SearchBuild(queries, results) ==
    /\ boot.app = "search" /\ boot.pc = "build"
    /\ boot' = [boot EXCEPT !.pc = "save", !.built = TRUE,
                            !.trainset = Bound(build_trainset(queries, results))]
    /\ UNCHANGED <<storeVars, metricVars, chatVars>>

\* search_assistant.py:179 save_trainset(trainset, "data/trainset.jsonl")
SearchSave ==
    /\ boot.app = "search" /\ boot.pc = "save"
    /\ file' = [exists |-> TRUE, text |-> save_trainset(boot.trainset.examples)]
    /\ saved' = boot.trainset.examples
    /\ written' = TRUE
    /\ boot' = BootStep("done")
    /\ UNCHANGED <<loads, metricVars, chatVars>>

\* audio_assistant.py:177 if os.path.exists("data/requirements.jsonl"); there
\* is no else branch
AudioExists ==
    /\ boot.app = "audio" /\ boot.pc = "exists"
    /\ boot' = BootStep(IF file.exists THEN "load" ELSE "compile")
    /\ UNCHANGED <<storeVars, metricVars, chatVars>>

\* audio_assistant.py:178 trainset = load_trainset(..., ('requirements',))
AudioLoad ==
    /\ boot.app = "audio" /\ boot.pc = "load"
    /\ boot' = BootLoaded(load_trainset(file, <<Requirements>>))
    /\ UNCHANGED <<storeVars, metricVars, chatVars>>

\* audio_assistant.py:180 tp.compile(VoiceMemoApp(), trainset=trainset): the
\* local variable trainset is read, bound or not
AudioCompile ==
    /\ boot.app = "audio" /\ boot.pc = "compile"
    /\ boot' = IF boot.trainset.bound THEN BootStep("done")
               ELSE BootRaise("UnboundLocalError")
    /\ UNCHANGED <<storeVars, metricVars, chatVars>>

NextBoot ==
    \/ SearchExists
    \/ SearchLoad
    \/ \E queries \in QueryLists :
         \E results \in ResultsFor(queries) : SearchBuild(queries, results)
    \/ SearchSave
    \/ AudioExists
    \/ AudioLoad
    \/ AudioCompile

SpecBoot == InitBoot /\ [][NextBoot]_vars

BootEnded == boot.pc \in {"done", "failed"}

\* C8: when the trainset file is absent at start-up the program does not
\* fail and has a trainset built from the queries; when the file is there
\* the trainset is loaded from it and nothing is built.
AbsentFileIsNoError ==
    BootEnded =>
        IF boot.existed
        THEN ~boot.built /\ (boot.pc = "done" => boot.trainset.bound)
        ELSE boot.pc = "done" /\ boot.built /\ boot.trainset.bound

\* C8, for the search assistant alone
AbsentFileIsNoErrorInSearch ==
    (BootEnded /\ boot.app = "search") =>
        IF boot.existed
        THEN ~boot.built /\ boot.pc = "done" /\ boot.trainset.bound
        ELSE boot.pc = "done" /\ boot.built /\ boot.trainset.bound /\ file.exists

\* C4, for build_trainset: every example built declares inputs that are
\* among its fields.
BuiltInputsAreFields ==
    boot.built =>
        \A i \in 1..Len(boot.trainset.examples) :
            LET ex == boot.trainset.examples[i]
            IN  ex.input_keys.declared /\ ex.input_keys.keys \subseteq Keys(ex.store)

\* ------------------------------------------------------------ judge metric
\* A float is the fraction [num, den], den > 0.  Sums and quotients are
\* exact; rounding to the nearest double is monotone, so it keeps the order
\* of the sums below and the quotients k / k.

Rat(n, d) == [num |-> n, den |-> d]
RatAdd(a, b) == Rat(a.num * b.den + b.num * a.den, a.den * b.den)
RatDiv(a, k) == Rat(a.num, a.den * k)
RatEq(a, b) == a.num * b.den = b.num * a.den
RatLe(a, b) == a.num * b.den <= b.num * a.den
RatLt(a, b) == a.num * b.den < b.num * a.den

\* float(x) of a bool
FloatOfBool(b) == Rat(IF b THEN 1 ELSE 0, 1)

\* the output fields of AssessQuality and of AssessTemplateQuality
SearchCriteria == <<"is_grounded", "language_match", "citation_correct">>
AudioCriteria == <<"general_score", "tone_score", "scenario_alignment_score",
                   "audience_match_score", "language_consistency_score",
                   "language_appropriateness_score">>
Range(seq) == {seq[i] : i \in 1..Len(seq)}

\* What the judge did: it raised (ok FALSE), or it returned an assessment
\* with the fields scores (those of the criteria it gave) and rationale.
NoRationale == [present |-> FALSE, text |-> ""]
Rationales == {NoRationale, [present |-> TRUE, text |-> "cites snippet 2"]}
JudgeRaised == [ok |-> FALSE, scores |-> <<>>, rationale |-> NoRationale]
Judged(scores, rationale) == [ok |-> TRUE, scores |-> scores, rationale |-> rationale]

Grid == {Rat(k, ScoreSteps) : k \in 0..ScoreSteps}

SearchJudgements ==
    {JudgeRaised} \cup
    {Judged(f, r) : f \in UNION {[D -> BOOLEAN] : D \in SUBSET Range(SearchCriteria)},
                    r \in Rationales}
AudioJudgements ==
    {JudgeRaised} \cup
    {Judged(f, r) : f \in UNION {[D -> Grid] : D \in SUBSET Range(AudioCriteria)},
                    r \in Rationales}

\* The outcome of llm_judge_metric: the Prediction returned, or the
\* exception raised; printed tells whether the diagnostic lines were printed.
Returned(score, feedback, printed) ==
    [status |-> "returned", error |-> "", score |-> score,
     feedback |-> feedback, printed |-> printed]
RaisedIn(error, printed) ==
    [status |-> "raised", error |-> error, score |-> Rat(0, 1),
     feedback |-> "", printed |-> printed]

Has(a, c) == c \in DOMAIN a.scores

\* search: a criterion the assessment lacks counts as False
SearchMetricDefaulting(a) ==
    LET f(c) == IF Has(a, c) THEN FloatOfBool(a.scores[c]) ELSE Rat(0, 1)
        total_score == RatDiv(RatAdd(RatAdd(f("is_grounded"), f("language_match")),
                                     f("citation_correct")), 3)
    IN  IF ~a.ok THEN RaisedIn("judge", FALSE)
        ELSE Returned(total_score, a.rationale.text, FALSE)

\* search_assistant.py llm_judge_metric(example, pred), a what judge(...) did
search_llm_judge_metric(a) ==
    LET f(c) == FloatOfBool(a.scores[c])
        total_score == RatDiv(RatAdd(RatAdd(f("is_grounded"), f("language_match")),
                                     f("citation_correct")), 3)
    IN  IF ~a.ok THEN RaisedIn("judge", FALSE)
        ELSE IF \E c \in Range(SearchCriteria) : ~Has(a, c)
             THEN RaisedIn("AttributeError", FALSE)
        ELSE IF ~a.rationale.present THEN RaisedIn("AttributeError", FALSE)
        ELSE Returned(total_score, a.rationale.text, FALSE)

\* audio: the sum of the six scores divided by 5.0
AudioMetricDividingByFive(a) ==
    LET g(c) == a.scores[c]
        low == RatLt(g("language_consistency_score"), Rat(1, 2))
        sum == RatAdd(RatAdd(RatAdd(RatAdd(RatAdd(g("general_score"), g("tone_score")),
                   g("scenario_alignment_score")), g("audience_match_score")),
                   g("language_consistency_score")), g("language_appropriateness_score"))
    IN  IF ~a.ok THEN RaisedIn("judge", FALSE)
        ELSE IF ~Has(a, "language_consistency_score")
             THEN RaisedIn("AttributeError", FALSE)
        ELSE IF \E c \in Range(AudioCriteria) : ~Has(a, c)
             THEN RaisedIn("AttributeError", low)
        ELSE IF ~a.rationale.present THEN RaisedIn("AttributeError", low)
        ELSE Returned(RatDiv(sum, 5), a.rationale.text, low)

\* audio_assistant.py llm_judge_metric(example, pred), a what judge(...) did
audio_llm_judge_metric(a) ==
    LET g(c) == a.scores[c]
        low == RatLt(g("language_consistency_score"), Rat(1, 2))
        sum == RatAdd(RatAdd(RatAdd(RatAdd(RatAdd(g("general_score"), g("tone_score")),
                   g("scenario_alignment_score")), g("audience_match_score")),
                   g("language_consistency_score")), g("language_appropriateness_score"))
    IN  IF ~a.ok THEN RaisedIn("judge", FALSE)
        ELSE IF ~Has(a, "language_consistency_score")
             THEN RaisedIn("AttributeError", FALSE)
        ELSE IF \E c \in Range(AudioCriteria) : ~Has(a, c)
             THEN RaisedIn("AttributeError", low)
        ELSE IF ~a.rationale.present THEN RaisedIn("AttributeError", low)
        ELSE Returned(RatDiv(sum, 6), a.rationale.text, low)

InitMetric == StoreIdle /\ BootIdle /\ MetricIdle /\ ChatIdle

\* the optimizer calls the search assistant's metric
SearchMetricCall(a) ==
    /\ metric.pc = "idle"
    /\ metric' = [app |-> "search", pc |-> "called", judged |-> a,
                  result |-> search_llm_judge_metric(a)]
    /\ UNCHANGED <<lm, storeVars, bootVars, chatVars>>

\* the optimizer calls the audio assistant's metric
AudioMetricCall(a) ==
    /\ metric.pc = "idle"
    /\ metric' = [app |-> "audio", pc |-> "called", judged |-> a,
                  result |-> audio_llm_judge_metric(a)]
    /\ UNCHANGED <<lm, storeVars, bootVars, chatVars>>

\* the optimizer takes the outcome and goes on to its next trial
MetricTaken ==
    /\ metric.pc = "called"
    /\ metric' = NoMetric
    /\ UNCHANGED <<lm, storeVars, bootVars, chatVars>>

NextMetric ==
    \/ \E a \in SearchJudgements : SearchMetricCall(a)
    \/ \E a \in AudioJudgements : AudioMetricCall(a)
    \/ MetricTaken

SpecMetric == InitMetric /\ [][NextMetric]_vars

Called == metric.pc = "called"
CriteriaOf(app) == IF app = "search" THEN SearchCriteria ELSE AudioCriteria
\* the value of criterion c of an assessment, a boolean as 1.0 or 0.0
ValueOf(app, a, c) == IF app = "search" THEN FloatOfBool(a.scores[c]) ELSE a.scores[c]
Complete(app, a) ==
    /\ a.ok
    /\ \A c \in Range(CriteriaOf(app)) : Has(a, c)
    /\ a.rationale.present

RECURSIVE RatSum(_, _, _)
RatSum(app, a, cs) ==
    IF cs = <<>> THEN Rat(0, 1)
    ELSE RatAdd(ValueOf(app, a, Head(cs)), RatSum(app, a, Tail(cs)))

\* the unweighted mean of the criteria of an assessment
Mean(app, a) == RatDiv(RatSum(app, a, CriteriaOf(app)), Len(CriteriaOf(app)))

\* C5: on an assessment with every criterion (and the rationale) present,
\* llm_judge_metric returns the unweighted mean of the criterion values, a
\* boolean counting 1.0 or 0.0: within [0, 1], exactly 1.0 when all are
\* 1.0/true, exactly 0.0 when all are 0.0/false, 2/3 for two true and one
\* false; the feedback is the rationale.
MetricIsMean ==
    (Called /\ Complete(metric.app, metric.judged)) =>
        LET a == metric.judged
            r == metric.result
            values == {ValueOf(metric.app, a, c) : c \in Range(CriteriaOf(metric.app))}
            ones == {c \in Range(CriteriaOf(metric.app)) :
                       RatEq(ValueOf(metric.app, a, c), Rat(1, 1))}
        IN  /\ r.status = "returned"
            /\ RatEq(r.score, Mean(metric.app, a))
            /\ RatLe(Rat(0, 1), r.score) /\ RatLe(r.score, Rat(1, 1))
            /\ (\A v \in values : RatEq(v, Rat(1, 1))) => RatEq(r.score, Rat(1, 1))
            /\ (\A v \in values : RatEq(v, Rat(0, 1))) => RatEq(r.score, Rat(0, 1))
            /\ (metric.app = "search" /\ Cardinality(ones) = 2)
                 => RatEq(r.score, Rat(2, 3))
            /\ r.feedback = a.rationale.text

\* the audio metric returned a score strictly between 0 and 1 that is not
\* one of the six scores it was given
MetricIsMeanWitness ==
    /\ Called /\ metric.app = "audio" /\ Complete("audio", metric.judged)
    /\ metric.result.status = "returned"
    /\ RatLt(Rat(0, 1), metric.result.score)
    /\ RatLt(metric.result.score, Rat(1, 1))
    /\ \A c \in Range(AudioCriteria) :
         ~RatEq(metric.judged.scores[c], metric.result.score)

\* C7: when the judge call fails, or the assessment lacks a criterion,
\* llm_judge_metric raises and returns no score.
NoSilentDefault ==
    (Called /\ (~metric.judged.ok
                  \/ \E c \in Range(CriteriaOf(metric.app)) : ~Has(metric.judged, c)))
        => metric.result.status = "raised"

\* the search metric raised on an assessment that has two of the three
\* criteria, both true
NoSilentDefaultWitness ==
    /\ Called /\ metric.app = "search" /\ metric.judged.ok
    /\ DOMAIN metric.judged.scores = {"is_grounded", "language_match"}
    /\ \A c \in DOMAIN metric.judged.scores : metric.judged.scores[c]
    /\ metric.judged.rationale.present
    /\ metric.result.status = "raised"
    /\ metric.result.error = "AttributeError"

\* ------------------------------------------------------------ chat front end
\* audio_assistant.py render_ui, registered with @cl.on_message: the hosting
\* runtime starts one task per incoming message.  A task runs without
\* interruption up to an await; the call of the module at line 220 is a
\* blocking call.  The module is a deterministic stub: its template is a
\* function of the requirements alone.  audio_assistant.json exists.

DumpCommand == "<dump_prompt>"
Contents == {DumpCommand, "a", "b"}

\* pred.template of voice_memo_app(requirements=content)
Template(content) == <<"template", content>>
\* the entry the call of the module appends to GLOBAL_HISTORY
Prompt(content) == [messages |-> <<"requirements", content>>]

\* dump_prompt(): GLOBAL_HISTORY[-1] of an empty history raises IndexError;
\* otherwise pprint(messages) calls the module pprint and raises TypeError.
dump_prompt(h) == IF h = <<>> THEN "IndexError" ELSE "TypeError"

InitChat == StoreIdle /\ BootIdle /\ MetricIdle /\ ChatIdle

\* a message arrives and the runtime creates the task that will handle it
Receive(content) ==
    /\ Len(handlers) < MaxMessages
    /\ handlers' = Append(handlers, [content |-> content, pc |-> "start",
                                     pred |-> <<>>, error |-> ""])
    /\ UNCHANGED <<replies, load_count, history, storeVars, bootVars, metricVars>>

\* render_ui lines 214-217 on the dump command: dump_prompt() raises while
\* the argument of cl.Message is evaluated, and the task ends there
RenderUiDump(i) ==
    /\ handlers[i].pc = "start"
    /\ handlers[i].content = DumpCommand
    /\ handlers' = [handlers EXCEPT ![i].pc = "failed",
                                    ![i].error = dump_prompt(history)]
    /\ UNCHANGED <<replies, load_count, history, storeVars, bootVars, metricVars>>

\* render_ui lines 218-220 on any other message: a new VoiceMemoApp, its
\* load("audio_assistant.json"), and the call of it
RenderUiGenerate(i) ==
    /\ handlers[i].pc = "start"
    /\ handlers[i].content # DumpCommand
    /\ load_count' = load_count + 1
    /\ history' = Append(history, Prompt(handlers[i].content))
    /\ handlers' = [handlers EXCEPT ![i].pc = "sending",
                                    ![i].pred = Template(handlers[i].content)]
    /\ UNCHANGED <<replies, storeVars, bootVars, metricVars>>

\* render_ui lines 221-226: await cl.Message(content=pred.template, ...).send()
RenderUiSend(i) ==
    /\ handlers[i].pc = "sending"
    /\ replies' = Append(replies, [to |-> i, content |-> handlers[i].pred])
    /\ handlers' = [handlers EXCEPT ![i].pc = "done"]
    /\ UNCHANGED <<load_count, history, storeVars, bootVars, metricVars>>

NextChat ==
    \/ \E content \in Contents : Receive(content)
    \/ \E i \in DOMAIN handlers : RenderUiDump(i)
    \/ \E i \in DOMAIN handlers : RenderUiGenerate(i)
    \/ \E i \in DOMAIN handlers : RenderUiSend(i)

SpecChat == InitChat /\ [][NextChat]_vars

Ended(i) == handlers[i].pc \in {"done", "failed"}
RepliesTo(i) == {k \in DOMAIN replies : replies[k].to = i}

\* C9: every message whose handler has ended received exactly one reply.
EveryMessageHasOneReply ==
    \A i \in DOMAIN handlers : Ended(i) => Cardinality(RepliesTo(i)) = 1

\* two handlers have ended and the one of the dump command sent no reply
DumpGetsNoReply ==
    \E i, j \in DOMAIN handlers :
        /\ i # j /\ Ended(i) /\ Ended(j)
        /\ handlers[i].content = DumpCommand
        /\ RepliesTo(i) = {}

\* C9, the messages that are not the dump command: once the handler of such
\* a message has ended the message has exactly one reply, the template of
\* its own requirements, whatever the other handlers did in between.
RequirementRepliesAreOwn ==
    \A i \in DOMAIN handlers :
        handlers[i].content # DumpCommand =>
            /\ Cardinality(RepliesTo(i)) <= 1
            /\ \A k \in RepliesTo(i) : replies[k].content = Template(handlers[i].content)
            /\ Ended(i) => Cardinality(RepliesTo(i)) = 1

\* C10: the compiled module is loaded at most once however many messages
\* are handled.
LoadedOnce == load_count <= 1

\* two messages were answered and the module was loaded once for each
LoadedPerMessage ==
    /\ Cardinality({i \in DOMAIN handlers : handlers[i].pc = "done"}) = 2
    /\ load_count = 2

\* C10, what the code does: one load for each message that is not the dump
\* command and whose handler has run.
LoadsCountGenerations ==
    load_count = Cardinality({i \in DOMAIN handlers :
                                handlers[i].pc \in {"sending", "done"}})

\* ------------------------------------------------------------ model settings
\* dspy.configure(lm=main_lm) sets the process-wide default when the module
\* is imported; `with dspy.context(lm=...)` pushes an override on entry and
\* removes it on exit, on a return and on an exception alike.  Only
\* audio_assistant.py calls tp.compile: the optimizer runs the program in
\* its trials and, with teacher_settings=dict(lm=judge_lm), runs it as the
\* teacher inside a context of those settings, where it also calls the
\* metric.  Everything runs in one thread.

MainLm == "main_lm"
JudgeLm == "judge_lm"

\* dspy.settings.lm: the innermost override, or the default
InEffect(s) == IF s.overrides = <<>> THEN s.default ELSE s.overrides[Len(s.overrides)]

\* entry of `with dspy.context(lm=x)`
context_enter(s, x) == [s EXCEPT !.overrides = Append(@, x)]

\* the exit of a context that leaves its override in place
ExitKeepingOverride(s) == s
\* exit of `with dspy.context(...)`
context_exit(s) == [s EXCEPT !.overrides = SubSeq(@, 1, Len(@) - 1)]

\* a call of a module ("judge" or "app") at a site, under the model in effect
Invoke(s, module, site) ==
    [s EXCEPT !.calls = @ \cup {[module |-> module, lm |-> InEffect(s), site |-> site]}]

At(s, pc) == [s EXCEPT !.pc = pc]

InitLm ==
    /\ StoreIdle /\ BootIdle /\ ChatIdle /\ metric = NoMetric
    /\ lm \in {[app |-> a, pc |-> "idle", default |-> MainLm, overrides |-> <<>>,
                calls |-> {}, teaching |-> FALSE] : a \in {"search", "audio"}}

LmStep(next) ==
    /\ lm' = next
    /\ UNCHANGED <<metric, storeVars, bootVars, chatVars>>

\* llm_judge_metric is called: `with dspy.context(lm=judge_lm):`
MetricEnter ==
    /\ lm.pc = "idle"
    /\ LmStep(At(context_enter(lm, JudgeLm), "entered"))

\* assessment = judge(...): it returns, or it raises
JudgeCall(ok) ==
    /\ lm.pc = "entered"
    /\ LmStep(At(Invoke(lm, "judge", "metric"),
                 IF ~ok THEN "raising"
                 ELSE IF lm.app = "audio" THEN "judged" ELSE "leaving"))

\* audio_assistant.py lines 143-146, still inside the with block: the read
\* of assessment.language_consistency_score succeeds, or raises
AudioInspect(ok) ==
    /\ lm.app = "audio" /\ lm.pc = "judged"
    /\ LmStep(At(lm, IF ok THEN "leaving" ELSE "raising"))

\* the with block is left, normally or by the exception
MetricExit ==
    /\ lm.pc \in {"leaving", "raising"}
    /\ LmStep(At(context_exit(lm), IF lm.pc = "leaving" THEN "left" ELSE "failed"))

\* the rest of llm_judge_metric: the score is returned (or the read of a
\* criterion raises), or the exception of the with block goes to the caller
MetricEnd ==
    /\ lm.pc \in {"left", "failed"}
    /\ LmStep(At(lm, "idle"))

\* tp.compile: the optimizer runs the program on an example of a trial
ProgramTrial ==
    /\ lm.app = "audio" /\ lm.pc = "idle" /\ ~lm.teaching
    /\ LmStep(Invoke(lm, "app", "trial"))

\* tp.compile: the optimizer enters a context of teacher_settings
TeacherEnter ==
    /\ lm.app = "audio" /\ lm.pc = "idle" /\ ~lm.teaching
    /\ LmStep([context_enter(lm, JudgeLm) EXCEPT !.teaching = TRUE])

\* the optimizer runs the program as the teacher
TeacherInvoke ==
    /\ lm.pc = "idle" /\ lm.teaching
    /\ LmStep(Invoke(lm, "app", "teacher"))

\* the optimizer leaves the context of teacher_settings
TeacherExit ==
    /\ lm.pc = "idle" /\ lm.teaching
    /\ LmStep([context_exit(lm) EXCEPT !.teaching = FALSE])

\* compiled_program(requirements=...) in main(), voice_memo_app(...) in render_ui
Serve ==
    /\ lm.app = "audio" /\ lm.pc = "idle" /\ ~lm.teaching
    /\ LmStep(Invoke(lm, "app", "serve"))

NextLm ==
    \/ MetricEnter
    \/ \E ok \in BOOLEAN : JudgeCall(ok)
    \/ \E ok \in BOOLEAN : AudioInspect(ok)
    \/ MetricExit
    \/ MetricEnd
    \/ ProgramTrial
    \/ TeacherEnter
    \/ TeacherInvoke
    \/ TeacherExit
    \/ Serve

SpecLm == InitLm /\ [][NextLm]_vars

InsideWith == lm.pc \in {"entered", "judged", "leaving", "raising"}
\* the overrides of the caller of llm_judge_metric
CallersOverrides == IF lm.teaching THEN <<JudgeLm>> ELSE <<>>

\* C11 as stated, the application module: no call of it runs under the
\* judge model.
AppNeverUnderJudge ==
    \A c \in lm.calls : c.module = "app" => c.lm # JudgeLm

\* C11 amended: the judge always runs under the judge model; the override of
\* llm_judge_metric is there only inside its with block, and once the block
\* is left, by a return or by an exception, the overrides are those of the
\* caller: the main model is in effect, except inside the optimizer's
\* teacher context, where the judge model is.  The application module runs
\* under the judge model only as the teacher; the process-wide default is
\* the main model throughout.
ScopedJudgeOverride ==
    /\ lm.default = MainLm
    /\ \A c \in lm.calls : c.module = "judge" => c.lm = JudgeLm
    /\ InsideWith => lm.overrides = Append(CallersOverrides, JudgeLm)
    /\ ~InsideWith => lm.overrides = CallersOverrides
    /\ (~InsideWith /\ ~lm.teaching) => InEffect(lm) = MainLm
    /\ \A c \in lm.calls :
         c.module = "app" => (c.lm = JudgeLm <=> c.site = "teacher")
    /\ \A c \in lm.calls :
         (c.module = "app" /\ c.site # "teacher") => c.lm = MainLm

\* the metric failed inside its with block after the judge ran, outside any
\* teacher context, and the program has run both as the teacher and in a
\* trial
ScopedJudgeOverrideWitness ==
    /\ lm.pc = "failed" /\ ~lm.teaching
    /\ InEffect(lm) = MainLm
    /\ [module |-> "judge", lm |-> JudgeLm, site |-> "metric"] \in lm.calls
    /\ [module |-> "app", lm |-> JudgeLm, site |-> "teacher"] \in lm.calls
    /\ [module |-> "app", lm |-> MainLm, site |-> "trial"] \in lm.calls

====
